---- MODULE Spec2Model ----
(***************************************************************************)
(* Playlist router (/api/playlists) and admin router (/api/admin) of the   *)
(* TYNDA backend, over the 'users', 'tracks' and 'playlists' collections.  *)
(* Every action is one store operation of a handler together with the      *)
(* synchronous code around it; handlers with several awaited store          *)
(* operations are in flight between them and interleave with other          *)
(* requests.                                                                *)
(***************************************************************************)
EXTENDS Integers, Sequences, FiniteSets, Bags

\* ---------------------------------------------------------------- bounds
MaxClock == 1        \* Date values are 0..MaxClock
MaxPlaylists == 2    \* playlists ever inserted
MaxInFlight == 2     \* handlers suspended between two store operations

\* ------------------------------------------------------------ identifiers
\* ObjectIds are integers: users 1..3 (1 is the super admin), tracks 11..13,
\* playlists 21, 22, ... in the order they are inserted.  At the HTTP
\* boundary an id is a string, which is the 24-digit hex of an ObjectId in
\* lower case ("lower"), the same digits in upper case ("upper"), or no
\* ObjectId at all ("bad").
SuperAdminOid == 1
UserOids == {1, 2, 3}
TrackOids == {11, 12, 13}

IdStr(o, f) == [oid |-> o, form |-> f]
BadId == IdStr(0, "bad")

\* ObjectId.isValid(s)
IsValid(s) == s.form \in {"lower", "upper"}
\* new ObjectId(s): hex digits are read case-insensitively
ObjectId(s) == s.oid
\* ObjectId.prototype.toString(): lower-case hex
OidToString(o) == IdStr(o, "lower")

\* req.session.userId, the hex string of the logged-in user's _id; NoSession
\* is a request without a session.
NoSession == BadId
SessionUserId(u) == OidToString(u)

\* ---------------------------------------------------------------- strings
\* A string is a sequence of characters; " " is whitespace.
Rep(c, n) == [i \in 1..n |-> c]
StrLength(s) == Len(s)
\* String.prototype.trim()
Trim(s) ==
    LET n == Len(s)
        lo == CHOOSE i \in 1..n : s[i] # " " /\ \A j \in 1..(i - 1) : s[j] = " "
        hi == CHOOSE i \in 1..n : s[i] # " " /\ \A j \in (i + 1)..n : s[j] = " "
    IN  IF \A i \in 1..n : s[i] = " " THEN <<>> ELSE SubSeq(s, lo, hi)

\* A field of req.body: undefined (absent), a string, or a truthy value that
\* is no string (a number, an object) and so has no trim method.
Undefined == [kind |-> "undefined", str |-> <<>>]
NonString == [kind |-> "other", str |-> <<>>]
Str(s) == [kind |-> "string", str |-> s]
\* !v
Falsy(v) == v.kind = "undefined" \/ (v.kind = "string" /\ v.str = <<>>)
\* v.trim() throws a TypeError
TrimThrows(v) == v.kind # "string"

\* name.length > 100 (routes/playlists.js:120)
NameMax == 100

\* ----------------------------------------------------------------- state
VARIABLES
    users,       \* collection 'users': set of documents
    tracks,      \* collection 'tracks'
    playlists,   \* collection 'playlists'
    inserted,    \* number of playlists inserted so far (next insertedId)
    now,         \* the clock read by new Date()
    reqs,        \* the bag of handlers suspended at an await
    last         \* the response sent by the step just taken (None if none)

vars == <<users, tracks, playlists, inserted, now, reqs, last>>

SuperAdminEmail == "admin@tynda.kz"
Email(u) == IF u = SuperAdminOid THEN SuperAdminEmail ELSE "user@tynda.kz"

UserDoc(u, r, t) == [_id |-> u, email |-> Email(u), role |-> r, updatedAt |-> t]
TrackDoc(t) == [_id |-> t]

\* collection.findOne({_id: o}) as a sequence of at most one document
FindById(coll, o) ==
    IF \E d \in coll : d._id = o
    THEN << CHOOSE d \in coll : d._id = o >>
    ELSE <<>>

\* ------------------------------------------------------------- responses
\* The response of a request, with the request it answers (op, caller, id,
\* arg, body, role) and, in pre, the document addressed by id as it was in the
\* store just before the handler's last store operation.
EmptyBody == [name |-> Undefined, description |-> Undefined, coverUrl |-> Undefined]
Request(op, caller, id, arg, body, role) ==
    [op |-> op, caller |-> caller, id |-> id, arg |-> arg, body |-> body, role |-> role]
\* isAdmin is the handler's local of that name (FALSE where it has none).
Response(req, pre, status, error, message, data) ==
    [req |-> req, pre |-> pre, status |-> status, error |-> error,
     message |-> message, data |-> data, isAdmin |-> FALSE]
WithIsAdmin(resp, isAdmin) == [resp EXCEPT !.isAdmin = isAdmin]
\* A response of an admin handler: the request passed router.use(isAdmin)
Passed(resp) == WithIsAdmin(resp, TRUE)
None == Response(Request("none", NoSession, BadId, BadId, EmptyBody, ""), <<>>, 0, "", "", <<>>)
ServerError(req, pre) == Response(req, pre, 500, "Server error", "", <<>>)

\* A suspended handler: its request, the await it is at, and its locals.
Pending(req, pc, isAdmin, doc) ==
    [req |-> req, pc |-> pc, isAdmin |-> isAdmin, doc |-> doc]

\* A handler may suspend while fewer than MaxInFlight are suspended
CanSuspend == BagCardinality(reqs) < MaxInFlight
Suspend(p) == reqs (+) SetToBag({p})
Finish(r) == reqs (-) SetToBag({r})
Continue(r, p) == (reqs (-) SetToBag({r})) (+) SetToBag({p})

Init ==
    /\ users = {UserDoc(u, IF u = SuperAdminOid THEN "admin" ELSE "user", 0) : u \in UserOids}
    /\ tracks = {TrackDoc(t) : t \in TrackOids}
    /\ playlists = {}
    /\ inserted = 0
    /\ now = 0
    /\ reqs = EmptyBag
    /\ last = None

\* ------------------------------------------------------ store operations
Range(seq) == {seq[i] : i \in 1..Len(seq)}

\* (mutant of AddToSet) $push: append always
PushAlways(arr, x) == Append(arr, x)

\* $addToSet: append unless already an element
AddToSet(arr, x) == IF x \in Range(arr) THEN arr ELSE Append(arr, x)

\* (mutant of Pull) arr.splice(arr.indexOf(x), 1): an index of -1 removes
\* the last element
SpliceIndexOf(arr, x) ==
    IF x \in Range(arr) THEN SelectSeq(arr, LAMBDA e : e # x)
    ELSE SubSeq(arr, 1, Len(arr) - 1)

\* $pull: remove every element equal to x, keeping the order of the rest
Pull(arr, x) == SelectSeq(arr, LAMBDA e : e # x)

\* (mutant of OwnedFilter) the filter {_id: new ObjectId(req.params.id)}
IdFilter(p, id, caller) == p._id = ObjectId(id)

\* The filter {_id: new ObjectId(req.params.id), userId: new ObjectId(req.session.userId)}
OwnedFilter(p, id, caller) == p._id = ObjectId(id) /\ p.userId = ObjectId(caller)

\* updateOne(filter, change): the matched document replaced by Change(doc)
UpdateOne(coll, Match(_), Change(_)) ==
    {IF Match(d) THEN Change(d) ELSE d : d \in coll}
MatchedCount(coll, Match(_)) == Cardinality({d \in coll : Match(d)})
\* deleteOne(filter)
DeleteOne(coll, Match(_)) == {d \in coll : ~Match(d)}

\* ------------------------------------------------ playlists: POST /
\* description?.trim() || ''
TrimOrEmpty(v) == IF v.kind = "undefined" THEN <<>> ELSE Trim(v.str)

NewPlaylist(oid, caller, body, t) ==
    [_id |-> oid, name |-> Trim(body.name.str),
     description |-> TrimOrEmpty(body.description),
     coverUrl |-> TrimOrEmpty(body.coverUrl),
     userId |-> ObjectId(caller), tracks |-> <<>>,
     createdAt |-> t, updatedAt |-> t]

\* The name checks of POST /: "" when the name passes, else the 400 message.
CreateNameError(name) ==
    IF Falsy(name) \/ Trim(name.str) = <<>> THEN "Playlist name is required"
    ELSE IF StrLength(name.str) > NameMax THEN "Name must be 100 characters or less"
    ELSE ""

CreatePlaylist(caller, body) ==
    LET req == Request("create", caller, BadId, BadId, body, "")
        oid == 20 + inserted + 1
        doc == NewPlaylist(oid, caller, body, now)
    IN  /\ UNCHANGED <<users, tracks, now, reqs>>
        /\ IF ~Falsy(body.name) /\ TrimThrows(body.name)
           THEN /\ last' = ServerError(req, <<>>)
                /\ UNCHANGED <<playlists, inserted>>
           ELSE IF CreateNameError(body.name) # ""
           THEN /\ last' = Response(req, <<>>, 400, CreateNameError(body.name), "", <<>>)
                /\ UNCHANGED <<playlists, inserted>>
           ELSE IF \/ (body.description.kind # "undefined" /\ TrimThrows(body.description))
                   \/ (body.coverUrl.kind # "undefined" /\ TrimThrows(body.coverUrl))
           THEN /\ last' = ServerError(req, <<>>)
                /\ UNCHANGED <<playlists, inserted>>
           ELSE /\ inserted < MaxPlaylists
                /\ playlists' = playlists \cup {doc}
                /\ inserted' = inserted + 1
                /\ last' = Response(req, <<>>, 201, "", "", <<doc>>)

\* ------------------------------------------------ playlists: PUT /:id
\* The $set of PUT /:id: updatedAt and each field the body supplies.
SetUpdateData(p, body, t) ==
    [p EXCEPT !.updatedAt = t,
              !.name = IF body.name.kind = "undefined" THEN @ ELSE Trim(body.name.str),
              !.description = IF body.description.kind = "undefined" THEN @
                              ELSE Trim(body.description.str),
              !.coverUrl = IF body.coverUrl.kind = "undefined" THEN @
                           ELSE Trim(body.coverUrl.str)]

\* The name check of PUT /:id: "" when the name passes, else the 400 message.
UpdateNameError(name) ==
    IF name.kind # "undefined" /\ Trim(name.str) = <<>>
    THEN "Playlist name cannot be empty" ELSE ""

UpdatePlaylist(caller, id, body) ==
    LET req == Request("update", caller, id, BadId, body, "")
        pre == FindById(playlists, ObjectId(id))
        Match(p) == OwnedFilter(p, id, caller)
        Change(p) == SetUpdateData(p, body, now)
    IN  /\ UNCHANGED <<users, tracks, inserted, now, reqs>>
        /\ IF ~IsValid(id)
           THEN /\ last' = Response(req, <<>>, 400, "Invalid playlist ID", "", <<>>)
                /\ UNCHANGED playlists
           ELSE IF body.name.kind # "undefined" /\ TrimThrows(body.name)
           THEN /\ last' = ServerError(req, pre)
                /\ UNCHANGED playlists
           ELSE IF UpdateNameError(body.name) # ""
           THEN /\ last' = Response(req, pre, 400, UpdateNameError(body.name), "", <<>>)
                /\ UNCHANGED playlists
           ELSE IF \/ (body.description.kind # "undefined" /\ TrimThrows(body.description))
                   \/ (body.coverUrl.kind # "undefined" /\ TrimThrows(body.coverUrl))
           THEN /\ last' = ServerError(req, pre)
                /\ UNCHANGED playlists
           ELSE /\ playlists' = UpdateOne(playlists, Match, Change)
                /\ last' = IF MatchedCount(playlists, Match) = 0
                           THEN Response(req, pre, 404, "Playlist not found", "", <<>>)
                           ELSE Response(req, pre, 200, "", "Playlist updated successfully", <<>>)

\* ------------------------------------------ playlists: POST /:id/tracks
\* (mutant of TrackLookup) no existence check: the id is taken as found
TrackAssumed(coll, trackId) == <<TrackDoc(ObjectId(trackId))>>

\* tracks.findOne({_id: new ObjectId(trackId)})
TrackLookup(coll, trackId) == FindById(coll, ObjectId(trackId))

\* First store operation: tracks.findOne({_id: trackId}), after validation.
AddTrackFind(caller, id, trackId) ==
    LET req == Request("addTrack", caller, id, trackId, EmptyBody, "")
        track == TrackLookup(tracks, trackId)
    IN  /\ CanSuspend
        /\ UNCHANGED <<users, tracks, playlists, inserted, now>>
        /\ IF ~IsValid(id)
           THEN /\ last' = Response(req, <<>>, 400, "Invalid playlist ID", "", <<>>)
                /\ UNCHANGED reqs
           ELSE IF ~IsValid(trackId)
           THEN /\ last' = Response(req, FindById(playlists, ObjectId(id)), 400,
                                    "Valid track ID is required", "", <<>>)
                /\ UNCHANGED reqs
           ELSE IF track = <<>>
           THEN /\ last' = Response(req, FindById(playlists, ObjectId(id)), 404,
                                    "Track not found", "", <<>>)
                /\ UNCHANGED reqs
           ELSE /\ reqs' = Suspend(Pending(req, "addToSet", FALSE, track))
                /\ last' = None

\* The update of POST /:id/tracks on the matched document
AddTrackChange(p, trackId, t) ==
    [p EXCEPT !.tracks = AddToSet(@, ObjectId(trackId)), !.updatedAt = t]

\* Second store operation: playlists.updateOne(owned, {$addToSet, $set}).
AddTrackUpdate(r) ==
    LET req == r.req
        pre == FindById(playlists, ObjectId(req.id))
        Match(p) == OwnedFilter(p, req.id, req.caller)
        Change(p) == AddTrackChange(p, req.arg, now)
    IN  /\ BagIn(r, reqs) /\ r.pc = "addToSet"
        /\ UNCHANGED <<users, tracks, inserted, now>>
        /\ playlists' = UpdateOne(playlists, Match, Change)
        /\ reqs' = Finish(r)
        /\ last' = IF MatchedCount(playlists, Match) = 0
                   THEN Response(req, pre, 404, "Playlist not found", "", <<>>)
                   ELSE Response(req, pre, 200, "", "Track added to playlist", r.doc)

\* ------------------------------- playlists: DELETE /:id/tracks/:trackId
RemoveTrackChange(p, trackId, t) ==
    [p EXCEPT !.tracks = Pull(@, ObjectId(trackId)), !.updatedAt = t]

RemoveTrack(caller, id, trackId) ==
    LET req == Request("removeTrack", caller, id, trackId, EmptyBody, "")
        pre == FindById(playlists, ObjectId(id))
        Match(p) == OwnedFilter(p, id, caller)
        Change(p) == RemoveTrackChange(p, trackId, now)
    IN  /\ UNCHANGED <<users, tracks, inserted, now, reqs>>
        /\ IF ~IsValid(id) \/ ~IsValid(trackId)
           THEN /\ last' = Response(req, pre, 400, "Invalid ID format", "", <<>>)
                /\ UNCHANGED playlists
           ELSE /\ playlists' = UpdateOne(playlists, Match, Change)
                /\ last' = IF MatchedCount(playlists, Match) = 0
                           THEN Response(req, pre, 404, "Playlist not found", "", <<>>)
                           ELSE Response(req, pre, 200, "", "Track removed from playlist", <<>>)

\* ------------------------------------------- playlists: DELETE /:id
DeletePlaylist(caller, id) ==
    LET req == Request("delete", caller, id, BadId, EmptyBody, "")
        pre == FindById(playlists, ObjectId(id))
        Match(p) == OwnedFilter(p, id, caller)
    IN  /\ UNCHANGED <<users, tracks, inserted, now, reqs>>
        /\ IF ~IsValid(id)
           THEN /\ last' = Response(req, <<>>, 400, "Invalid playlist ID", "", <<>>)
                /\ UNCHANGED playlists
           ELSE /\ playlists' = DeleteOne(playlists, Match)
                /\ last' = IF MatchedCount(playlists, Match) = 0
                           THEN Response(req, pre, 404, "Playlist not found", "", <<>>)
                           ELSE Response(req, pre, 200, "", "Playlist deleted successfully", <<>>)

\* ------------------------------------------------- playlists: GET /
\* user && user.role === 'admin'
HasAdminRole(user) == user # <<>> /\ user[1].role = "admin"

\* First store operation: users.findOne({_id: session user}).
ListUser(caller) ==
    LET req == Request("list", caller, BadId, BadId, EmptyBody, "")
        user == FindById(users, ObjectId(caller))
    IN  /\ CanSuspend
        /\ UNCHANGED <<users, tracks, playlists, inserted, now>>
        /\ reqs' = Suspend(Pending(req, "list", HasAdminRole(user), <<>>))
        /\ last' = None

\* sort({createdAt: -1}); documents with equal dates are left in _id order
RECURSIVE SortNewestFirst(_)
SortNewestFirst(S) ==
    IF S = {} THEN <<>>
    ELSE LET d == CHOOSE x \in S : \A y \in S :
                      \/ x.createdAt > y.createdAt
                      \/ (x.createdAt = y.createdAt /\ x._id <= y._id)
         IN  <<d>> \o SortNewestFirst(S \ {d})

\* $lookup of the owner, $unwind (preserveNullAndEmptyArrays), $project
WithOwner(p) ==
    [_id |-> p._id, name |-> p.name, description |-> p.description,
     coverUrl |-> p.coverUrl, tracks |-> p.tracks, userId |-> p.userId,
     createdAt |-> p.createdAt,
     owner |-> [u \in 1..Len(FindById(users, p.userId)) |->
                  [_id |-> FindById(users, p.userId)[u]._id]]]

\* (mutant of ListQuery) the aggregate over all playlists, whatever the role
ListEverything(isAdmin, caller) == {WithOwner(p) : p \in playlists}

\* The documents GET / selects: all for an admin, the caller's own otherwise.
ListQuery(isAdmin, caller) ==
    IF isAdmin
    THEN {WithOwner(p) : p \in playlists}
    ELSE {p \in playlists : p.userId = ObjectId(caller)}

\* Second store operation: the aggregate (admin) or the find (regular user).
ListFind(r) ==
        /\ BagIn(r, reqs) /\ r.pc = "list"
        /\ UNCHANGED <<users, tracks, playlists, inserted, now>>
        /\ reqs' = Finish(r)
        /\ last' = WithIsAdmin(Response(r.req, <<>>, 200, "", "",
                                SortNewestFirst(ListQuery(r.isAdmin, r.req.caller))),
                                r.isAdmin)

\* ------------------------------------------------ playlists: GET /:id
\* First store operation: users.findOne({_id: session user}), after validation.
GetUser(caller, id) ==
    LET req == Request("get", caller, id, BadId, EmptyBody, "")
        user == FindById(users, ObjectId(caller))
    IN  /\ CanSuspend
        /\ UNCHANGED <<users, tracks, playlists, inserted, now>>
        /\ IF ~IsValid(id)
           THEN /\ last' = Response(req, <<>>, 400, "Invalid playlist ID", "", <<>>)
                /\ UNCHANGED reqs
           ELSE /\ reqs' = Suspend(Pending(req, "getFind", HasAdminRole(user), <<>>))
                /\ last' = None

\* (mutant of GetQuery) the query {_id} for every caller
GetById(p, isAdmin, id, caller) == p._id = ObjectId(id)

\* The query of GET /:id: by _id, and by userId unless the caller is an admin
GetQuery(p, isAdmin, id, caller) ==
    /\ p._id = ObjectId(id)
    /\ (~isAdmin => p.userId = ObjectId(caller))

\* The playlist as sent: with isOwner and tracksData
Annotated(p, caller, tracksData) ==
    [_id |-> p._id, name |-> p.name, description |-> p.description,
     coverUrl |-> p.coverUrl, tracks |-> p.tracks, userId |-> p.userId,
     createdAt |-> p.createdAt, updatedAt |-> p.updatedAt,
     isOwner |-> (OidToString(p.userId) = caller),
     tracksData |-> tracksData]

\* Second store operation: playlists.findOne(query).
GetFind(r) ==
    LET req == r.req
        pre == FindById(playlists, ObjectId(req.id))
        found == {p \in playlists : GetQuery(p, r.isAdmin, req.id, req.caller)}
        playlist == CHOOSE p \in found : TRUE
    IN  /\ BagIn(r, reqs) /\ r.pc = "getFind"
        /\ UNCHANGED <<users, tracks, playlists, inserted, now>>
        /\ IF found = {}
           THEN /\ reqs' = Finish(r)
                /\ last' = WithIsAdmin(Response(req, pre, 404, "Playlist not found", "", <<>>),
                                       r.isAdmin)
           ELSE IF Len(playlist.tracks) > 0
           THEN /\ reqs' = Continue(r, Pending(req, "getTracks", r.isAdmin, <<playlist>>))
                /\ last' = None
           ELSE /\ reqs' = Finish(r)
                /\ last' = WithIsAdmin(Response(req, pre, 200, "", "",
                                                <<Annotated(playlist, req.caller, <<>>)>>),
                                       r.isAdmin)

\* tracks.find({_id: {$in: ids}}).toArray(), in the collection's _id order
RECURSIVE InOrder(_)
InOrder(S) ==
    IF S = {} THEN <<>>
    ELSE LET d == CHOOSE x \in S : \A y \in S : x._id <= y._id
         IN  <<d>> \o InOrder(S \ {d})
FindIn(coll, ids) == InOrder({d \in coll : d._id \in Range(ids)})

\* Third store operation: the tracks of the playlist that was found.
GetTracks(r) ==
    LET req == r.req
        playlist == r.doc[1]
    IN  /\ BagIn(r, reqs) /\ r.pc = "getTracks"
        /\ UNCHANGED <<users, tracks, playlists, inserted, now>>
        /\ reqs' = Finish(r)
        /\ last' = WithIsAdmin(Response(req, r.doc, 200, "", "",
                                        <<Annotated(playlist, req.caller,
                                                    FindIn(tracks, playlist.tracks))>>),
                               r.isAdmin)

\* ------------------------------------------------ admin: middleware
\* router.use(isAuthenticated); router.use(isAdmin): the role of the session
\* user is read from the store; a caller whose role is not admin gets 403.
AdminAuth(caller, op, id, role) ==
    LET req == Request(op, caller, id, BadId, EmptyBody, role)
        user == FindById(users, ObjectId(caller))
    IN  /\ CanSuspend
        /\ UNCHANGED <<users, tracks, playlists, inserted, now>>
        /\ IF HasAdminRole(user)
           THEN /\ reqs' = Suspend(Pending(req, op, TRUE, <<>>))
                /\ last' = None
           ELSE /\ last' = Response(req, <<>>, 403, "Forbidden", "", <<>>)
                /\ UNCHANGED reqs

\* isAuthenticated on a request without a session
Unauthenticated(op) ==
    /\ last' = Response(Request(op, NoSession, BadId, BadId, EmptyBody, ""),
                        <<>>, 401, "Unauthorized", "", <<>>)
    /\ UNCHANGED <<users, tracks, playlists, inserted, now, reqs>>

\* ------------------------------------- admin: PATCH /users/:id/role
\* !role || !['user', 'admin'].includes(role)
InvalidRole(role) == role \notin {"user", "admin"}

\* req.params.id === req.session.userId: equality of the two strings
IsSelf(id, caller) == id = caller

\* (mutant of SuperAdminProtected) no protection of the super admin
Unprotected(targetUser, role) == FALSE

\* targetUser && targetUser.email === 'admin@tynda.kz' && role !== 'admin'
SuperAdminProtected(targetUser, role) ==
    targetUser # <<>> /\ targetUser[1].email = SuperAdminEmail /\ role # "admin"

\* First store operation of the handler: users.findOne({_id: id}), after the
\* validation and the self-demotion guard.
PatchRoleFind(r) ==
    LET req == r.req
        targetUser == FindById(users, ObjectId(req.id))
    IN  /\ BagIn(r, reqs) /\ r.pc = "patchRole"
        /\ UNCHANGED <<users, tracks, playlists, inserted, now>>
        /\ IF ~IsValid(req.id)
           THEN /\ last' = Passed(Response(req, <<>>, 400, "Invalid user ID", "", <<>>))
                /\ reqs' = Finish(r)
           ELSE IF InvalidRole(req.role)
           THEN /\ last' = Passed(Response(req, targetUser, 400, "Invalid role", "", <<>>))
                /\ reqs' = Finish(r)
           ELSE IF IsSelf(req.id, req.caller) /\ req.role # "admin"
           THEN /\ last' = Passed(Response(req, targetUser, 400,
                                    "Cannot demote yourself from admin", "", <<>>))
                /\ reqs' = Finish(r)
           ELSE IF SuperAdminProtected(targetUser, req.role)
           THEN /\ last' = Passed(Response(req, targetUser, 403,
                                    "Cannot modify the super admin account", "", <<>>))
                /\ reqs' = Finish(r)
           ELSE /\ reqs' = Continue(r, Pending(req, "setRole", TRUE, targetUser))
                /\ last' = None

SetRole(u, role, t) == [u EXCEPT !.role = role, !.updatedAt = t]

\* Second store operation: users.updateOne({_id: id}, {$set: {role, updatedAt}}).
PatchRoleUpdate(r) ==
    LET req == r.req
        pre == FindById(users, ObjectId(req.id))
        Match(u) == u._id = ObjectId(req.id)
        Change(u) == SetRole(u, req.role, now)
    IN  /\ BagIn(r, reqs) /\ r.pc = "setRole"
        /\ UNCHANGED <<tracks, playlists, inserted, now>>
        /\ users' = UpdateOne(users, Match, Change)
        /\ reqs' = Finish(r)
        /\ last' = IF MatchedCount(users, Match) = 0
                   THEN Passed(Response(req, pre, 404, "User not found", "", <<>>))
                   ELSE Passed(Response(req, pre, 200, "", "User role updated", <<>>))

\* ------------------------------------------- admin: DELETE /users/:id
DeleteUser(r) ==
    LET req == r.req
        pre == FindById(users, ObjectId(req.id))
        Match(u) == u._id = ObjectId(req.id)
    IN  /\ BagIn(r, reqs) /\ r.pc = "deleteUser"
        /\ UNCHANGED <<tracks, playlists, inserted, now>>
        /\ reqs' = Finish(r)
        /\ IF ~IsValid(req.id)
           THEN /\ last' = Passed(Response(req, <<>>, 400, "Invalid user ID", "", <<>>))
                /\ UNCHANGED users
           ELSE IF IsSelf(req.id, req.caller)
           THEN /\ last' = Passed(Response(req, pre, 400, "Cannot delete your own account", "", <<>>))
                /\ UNCHANGED users
           ELSE /\ users' = DeleteOne(users, Match)
                /\ last' = IF MatchedCount(users, Match) = 0
                           THEN Passed(Response(req, pre, 404, "User not found", "", <<>>))
                           ELSE Passed(Response(req, pre, 200, "", "User deleted successfully", <<>>))

\* ------------------------------------------------------- environment
\* new Date() moves on
Tick ==
    /\ now < MaxClock
    /\ now' = now + 1
    /\ last' = None
    /\ UNCHANGED <<users, tracks, playlists, inserted, reqs>>

\* The track router's DELETE /api/tracks/:id
TrackDelete(t) ==
    /\ TrackDoc(t) \in tracks
    /\ tracks' = tracks \ {TrackDoc(t)}
    /\ last' = None
    /\ UNCHANGED <<users, playlists, inserted, now, reqs>>

\* ------------------------------------------------------------ inputs
U(i) == SessionUserId(i)
P(i) == OidToString(20 + i)
T(i) == OidToString(i)
\* a well-formed id that no document ever has
Unknown == OidToString(99)
Body(n, d, c) == [name |-> n, description |-> d, coverUrl |-> c]
Named(n) == Body(Str(n), Undefined, Undefined)

\* ------------------------------ specification: track membership
\* User 2 owns the playlists; user 3 is another regular user.  Requests
\* are <<caller, playlist id, track id>>.
MemberRequests ==
    {<<U(2), P(1), T(t)>> : t \in TrackOids}
        \cup {<<U(2), P(i), T(11)>> : i \in 1..MaxPlaylists}
        \cup {<<U(2), P(1), Unknown>>, <<U(2), P(1), BadId>>, <<U(3), P(1), T(12)>>}

MCreate == CreatePlaylist(U(2), Named(<<"a">>))
MAddFind == \E a \in MemberRequests : AddTrackFind(a[1], a[2], a[3])
MAddUpdate == \E r \in BagToSet(reqs) : AddTrackUpdate(r)
MRemove == \E a \in MemberRequests : RemoveTrack(a[1], a[2], a[3])
MDelete == DeletePlaylist(U(2), P(1))
MTrackGone == TrackDelete(11)

NextMembers ==
    MCreate \/ MAddFind \/ MAddUpdate \/ MRemove \/ MDelete \/ MTrackGone

SpecMembers == Init /\ [][NextMembers]_vars

\* ------------------------------ specification: owner-scoped mutations
\* User 2 owns the playlists; user 1 is the super admin, who owns none.
\* <<caller, playlist id, body>>
UpdateRequests ==
    {<<U(2), P(1), Body(Str(<<"b", " ">>), Undefined, Str(<<"c">>))>>,
     <<U(2), Unknown, EmptyBody>>, <<U(2), BadId, EmptyBody>>}
        \cup {<<U(1), P(1), b>> : b \in {EmptyBody, Named(<<" ">>), Named(<<"b">>),
                                         Body(Undefined, NonString, Undefined)}}
\* <<caller, playlist id, track id>>
OwnerTrackRequests ==
    {<<U(2), P(1), T(11)>>, <<U(1), P(1), T(11)>>, <<U(1), P(1), BadId>>,
     <<U(1), P(1), Unknown>>}
DeleteRequests == {<<U(1), P(1)>>} \cup {<<U(2), P(i)>> : i \in 1..MaxPlaylists}

OCreate == CreatePlaylist(U(2), Named(<<"a">>))
OUpdate == \E a \in UpdateRequests : UpdatePlaylist(a[1], a[2], a[3])
OAddFind == \E a \in OwnerTrackRequests : AddTrackFind(a[1], a[2], a[3])
OAddUpdate == \E r \in BagToSet(reqs) : AddTrackUpdate(r)
ORemove == \E a \in OwnerTrackRequests : RemoveTrack(a[1], a[2], a[3])
ODelete == \E a \in DeleteRequests : DeletePlaylist(a[1], a[2])

NextOwner ==
    OCreate \/ OUpdate \/ OAddFind \/ OAddUpdate \/ ORemove \/ ODelete \/ Tick

SpecOwner == Init /\ [][NextOwner]_vars

\* ------------------------------ specification: playlist names
\* User 2 creates and renames playlists with names of every kind.
CreateBodies ==
    { Body(Undefined, Undefined, Undefined),
      Named(<<>>),
      Named(<<" ">>),
      Body(NonString, Undefined, Undefined),
      Body(Str(<<"a">>), NonString, Undefined),
      Body(Str(<<" ", "a", " ">>), Str(<<" ", "d">>), Undefined),
      Named(Rep("a", NameMax)),
      Named(<<" ">> \o Rep("a", NameMax)),
      Named(Rep("a", NameMax + 1)) }
UpdateBodies ==
    { EmptyBody,
      Named(<<" ">>),
      Body(NonString, Undefined, Undefined),
      Body(Undefined, Undefined, NonString),
      Body(Str(<<"b", " ">>), Undefined, Str(<<"c">>)),
      Named(Rep("a", NameMax + 1)) }

NCreate == \E b \in CreateBodies : CreatePlaylist(U(2), b)
NUpdate == \E i \in 1..MaxPlaylists, b \in UpdateBodies : UpdatePlaylist(U(2), P(i), b)
NDelete == \E i \in 1..MaxPlaylists : DeletePlaylist(U(2), P(i))

NextNames == NCreate \/ NUpdate \/ NDelete

SpecNames == Init /\ [][NextNames]_vars

\* ------------------------------ specification: reading playlists
\* Users 2 and 3 create playlists; users 1 (super admin) and 3 read; the
\* super admin gives user 3 the admin role and takes it back.
ReadIds == {P(i) : i \in 1..MaxPlaylists} \cup {Unknown, BadId}

RCreate == \E c \in {U(2), U(3)} : CreatePlaylist(c, Named(<<"a">>))
RAddFind == AddTrackFind(U(2), P(1), T(11))
RAddUpdate == \E r \in BagToSet(reqs) : AddTrackUpdate(r)
RListUser == \E c \in {U(1), U(3)} : ListUser(c)
RListFind == \E r \in BagToSet(reqs) : ListFind(r)
RGetUser == \E c \in {U(1), U(3)}, id \in ReadIds : GetUser(c, id)
RGetFind == \E r \in BagToSet(reqs) : GetFind(r)
RGetTracks == \E r \in BagToSet(reqs) : GetTracks(r)
RAdminAuth == \E role \in {"user", "admin"} : AdminAuth(U(1), "patchRole", U(3), role)
RPatchFind == \E r \in BagToSet(reqs) : PatchRoleFind(r)
RPatchUpdate == \E r \in BagToSet(reqs) : PatchRoleUpdate(r)

NextRead ==
    \/ RCreate \/ RAddFind \/ RAddUpdate
    \/ RListUser \/ RListFind \/ RGetUser \/ RGetFind \/ RGetTracks
    \/ RAdminAuth \/ RPatchFind \/ RPatchUpdate

SpecRead == Init /\ [][NextRead]_vars

\* ------------------------------ specification: user administration
\* Users 1 (super admin) and 2 send admin requests; the ids they name are
\* spelled in lower or in upper case.  Requests are <<caller, op, id, role>>.
Upper(o) == IdStr(o, "upper")
AdminRequests ==
    { <<U(1), "patchRole", U(2), "admin">>, <<U(1), "patchRole", U(2), "user">>,
      <<U(1), "patchRole", U(3), "admin">>,
      <<U(2), "patchRole", U(1), "user">>, <<U(2), "patchRole", U(1), "admin">>,
      <<U(1), "patchRole", U(1), "user">>, <<U(1), "patchRole", Upper(1), "user">>,
      <<U(2), "patchRole", U(2), "user">>, <<U(2), "patchRole", Upper(2), "user">>,
      <<U(1), "patchRole", U(1), "moderator">>, <<U(2), "patchRole", U(1), "">>,
      <<U(1), "patchRole", Unknown, "user">>, <<U(1), "patchRole", BadId, "user">>,
      <<U(2), "deleteUser", U(1), "">>, <<U(1), "deleteUser", U(2), "">>,
      <<U(1), "deleteUser", U(3), "">>,
      <<U(1), "deleteUser", U(1), "">>, <<U(1), "deleteUser", Upper(1), "">>,
      <<U(2), "deleteUser", U(2), "">>, <<U(2), "deleteUser", Upper(2), "">>,
      <<U(1), "deleteUser", Unknown, "">>, <<U(1), "deleteUser", BadId, "">> }

AAdminAuth == \E a \in AdminRequests : AdminAuth(a[1], a[2], a[3], a[4])
APatchFind == \E r \in BagToSet(reqs) : PatchRoleFind(r)
APatchUpdate == \E r \in BagToSet(reqs) : PatchRoleUpdate(r)
ADeleteUser == \E r \in BagToSet(reqs) : DeleteUser(r)
ANoSession == Unauthenticated("deleteUser")

NextAdmin ==
    AAdminAuth \/ APatchFind \/ APatchUpdate \/ ADeleteUser \/ ANoSession

SpecAdmin == Init /\ [][NextAdmin]_vars

\* The same with every id spelled as the store's toString() gives it
PlainRequests == {a \in AdminRequests : a[3].form # "upper"}
PAdminAuth == \E a \in PlainRequests : AdminAuth(a[1], a[2], a[3], a[4])

NextAdminPlain ==
    PAdminAuth \/ APatchFind \/ APatchUpdate \/ ADeleteUser \/ ANoSession

SpecAdminPlain == Init /\ [][NextAdminPlain]_vars

\* Admins naming their own account: user 2, once the super admin has made
\* it an admin, and the super admin
SelfRequests ==
    { <<U(1), "patchRole", U(2), "admin">>,
      <<U(2), "patchRole", U(2), "user">>, <<U(2), "patchRole", Upper(2), "user">>,
      <<U(2), "deleteUser", U(2), "">>, <<U(2), "deleteUser", Upper(2), "">>,
      <<U(1), "patchRole", U(1), "user">>,
      <<U(1), "deleteUser", U(1), "">>, <<U(1), "deleteUser", Upper(1), "">> }
SAdminAuth == \E a \in SelfRequests : AdminAuth(a[1], a[2], a[3], a[4])

NextAdminSelf ==
    SAdminAuth \/ APatchFind \/ APatchUpdate \/ ADeleteUser \/ ANoSession \/ Tick

SpecAdminSelf == Init /\ [][NextAdminSelf]_vars

\* ---------------------------------------------------------------- claims
\* The document of the request just answered, as it is in the store now
NoDuplicates(arr) == \A i, j \in 1..Len(arr) : arr[i] = arr[j] => i = j
IndexOf(arr, x) == CHOOSE i \in 1..Len(arr) : arr[i] = x
Before == last.pre[1]
After == FindById(playlists, ObjectId(last.req.id))[1]
CallerOid == ObjectId(last.req.caller)

\* C1: no playlist's tracks list ever holds the same track id twice, whatever
\* add-track requests were made and however they interleaved; an add-track
\* that succeeds for an id already in the list leaves the list as it was, and
\* one for an id not in it makes the list exactly one longer.
C1_AddIsIdempotent ==
    /\ \A p \in playlists : NoDuplicates(p.tracks)
    /\ (last.req.op = "addTrack" /\ last.status = 200) =>
           IF ObjectId(last.req.arg) \in Range(Before.tracks)
           THEN After.tracks = Before.tracks
           ELSE /\ Len(After.tracks) = Len(Before.tracks) + 1
                /\ SubSeq(After.tracks, 1, Len(Before.tracks)) = Before.tracks
                /\ After.tracks[Len(After.tracks)] = ObjectId(last.req.arg)

\* An add-track answered 200 for an id that was already in a list of two
C1_Witness ==
    /\ last.req.op = "addTrack" /\ last.status = 200
    /\ ObjectId(last.req.arg) \in Range(Before.tracks)
    /\ Len(After.tracks) = 2

\* C7: a step of the add-track handler's existence check, taken with a
\* well-formed playlist id and a well-formed trackId that no document of the
\* tracks collection has at that moment, answers 404 'Track not found',
\* suspends nothing and leaves every playlist as it was.
C7_MissingTrackIsNotFound ==
    [][\A a \in MemberRequests :
          ( /\ AddTrackFind(a[1], a[2], a[3])
            /\ IsValid(a[2]) /\ IsValid(a[3])
            /\ ~\E t \in tracks : t._id = ObjectId(a[3]) )
          => ( /\ last'.status = 404 /\ last'.error = "Track not found"
               /\ playlists' = playlists /\ reqs' = reqs )]_vars

\* The owner's add-track of a track deleted from the catalog, refused
C7_Witness ==
    /\ last.req.op = "addTrack" /\ last.error = "Track not found"
    /\ last.req.arg = T(11)
    /\ last.pre # <<>> /\ Before.userId = CallerOid /\ Before \in playlists

\* C8: a remove-track by the playlist's owner (well-formed ids) is answered
\* 200; if the track id was not in the list the list is as it was; in any
\* case the list afterwards holds exactly the other ids, once each, in the
\* order they had.
C8_RemoveOnlyThatTrack ==
    ( /\ last.req.op = "removeTrack" /\ IsValid(last.req.id) /\ IsValid(last.req.arg)
      /\ last.pre # <<>> /\ Before.userId = CallerOid )
    => /\ last.status = 200
       /\ ObjectId(last.req.arg) \notin Range(Before.tracks) => After.tracks = Before.tracks
       /\ Range(After.tracks) = Range(Before.tracks) \ {ObjectId(last.req.arg)}
       /\ NoDuplicates(After.tracks)
       /\ \A x, y \in Range(After.tracks) :
              IndexOf(After.tracks, x) < IndexOf(After.tracks, y)
                  <=> IndexOf(Before.tracks, x) < IndexOf(Before.tracks, y)

\* The owner's remove-track of an id that is not among the list's two members
C8_Witness ==
    /\ last.req.op = "removeTrack" /\ last.status = 200
    /\ last.pre # <<>> /\ Before.userId = CallerOid
    /\ Len(Before.tracks) = 2
    /\ ObjectId(last.req.arg) \notin Range(Before.tracks)

\* The owner's remove-track of the middle one of three members
C8_WitnessMiddle ==
    /\ last.req.op = "removeTrack" /\ last.status = 200
    /\ Len(Before.tracks) = 3
    /\ Before.tracks[2] = ObjectId(last.req.arg)

\* C9: every stored playlist has a name of 1 to 100 characters.
C9_NameBounded ==
    \A p \in playlists : Len(p.name) >= 1 /\ Len(p.name) <= NameMax

\* C10 as claimed: update, add-track, remove-track and delete-playlist by a
\* caller who is not the playlist's owner are answered 404 and leave the
\* playlist as it was.
Mutations == {"update", "addTrack", "removeTrack", "delete"}
ByNonOwner ==
    /\ last.req.op \in Mutations
    /\ last.pre # <<>> /\ Before.userId # CallerOid
IsStringOrAbsent(v) == v.kind \in {"undefined", "string"}
WellFormed(req) ==
    /\ req.op = "update" =>
          /\ IsStringOrAbsent(req.body.name)
          /\ IsStringOrAbsent(req.body.description)
          /\ IsStringOrAbsent(req.body.coverUrl)
          /\ req.body.name.kind = "string" => \E i \in 1..Len(req.body.name.str) :
                                                  req.body.name.str[i] # " "
    /\ req.op \in {"addTrack", "removeTrack"} => IsValid(req.arg)

C5_NonAdminListsOwn ==
    (last.req.op = "list" /\ ~last.isAdmin) =>
        /\ last.status = 200
        /\ \A i \in 1..Len(last.data) : last.data[i].userId = CallerOid

\* A regular user is sent a list that is not empty while another user's
\* playlist is in the store
C5_Witness ==
    /\ last.req.op = "list" /\ ~last.isAdmin
    /\ Len(last.data) > 0
    /\ \E p \in playlists : p.userId # CallerOid

\* C6: GET /:id with a well-formed id, by a caller the handler read as not
\* admin, is answered by the same 404 response whether the id is another
\* user's playlist or no playlist at all; by a caller read as admin it is
\* answered 200 with the playlist whenever a playlist has the id.
C6_OthersLookAbsent ==
    (last.req.op = "get" /\ IsValid(last.req.id)) =>
        /\ (~last.isAdmin /\ (last.pre = <<>> \/ Before.userId # CallerOid)) =>
               /\ last.status = 404 /\ last.error = "Playlist not found"
               /\ last.message = "" /\ last.data = <<>>
        /\ (last.isAdmin /\ last.pre # <<>>) =>
               /\ last.status = 200
               /\ last.data[1]._id = ObjectId(last.req.id)
               /\ last.data[1].userId = Before.userId
               /\ last.data[1].name = Before.name
               /\ last.data[1].tracks = Before.tracks

\* A regular user asks for another user's playlist, which has a track
C6_Witness ==
    /\ last.req.op = "get" /\ ~last.isAdmin /\ last.status = 404
    /\ last.pre # <<>> /\ Before.userId # CallerOid
    /\ Len(Before.tracks) > 0

\* An admin is sent another user's playlist
C6_WitnessAdmin ==
    /\ last.req.op = "get" /\ last.isAdmin /\ last.status = 200
    /\ Before.userId # CallerOid /\ Len(last.data[1].tracksData) > 0

\* C2: exactly one user document has the super admin's email.
C2_SuperAdminExists ==
    Cardinality({u \in users : u.email = SuperAdminEmail}) = 1

\* A role update that passed the admin check, names the super admin's
\* document, which exists, and asks for a role other than admin
ToSuperAdmin ==
    /\ last.req.op = "patchRole" /\ last.isAdmin
    /\ IsValid(last.req.id) /\ ObjectId(last.req.id) = SuperAdminOid
    /\ last.req.role # "admin"
    /\ last.pre # <<>>

\* C3 as claimed: such a request is answered 403 and leaves the super
\* admin's document as it was.
C3_SuperAdminGets403 ==
    ToSuperAdmin => (last.status = 403 /\ Before \in users)

\* C3 (amended): such a request leaves the super admin's document as it
\* was; it is answered 400 when the role is not 'user' or when :id is the
\* caller's own session user id, and 403 otherwise.
C3_SuperAdminKeepsRole ==
    ToSuperAdmin =>
        /\ Before \in users
        /\ last.status = IF last.req.role # "user" THEN 400
                         ELSE IF last.req.id = last.req.caller THEN 400
                         ELSE 403

\* Another admin asks for the super admin to become a user
C3_Witness ==
    /\ ToSuperAdmin /\ last.status = 403
    /\ last.req.role = "user" /\ last.req.caller = U(2)

\* C4: a user delete, or a role update to 'user', that passed the admin
\* check and names the caller's own document is answered 400 and leaves
\* that document as it was.
C4_SelfTargetRefused ==
    ( /\ last.req.op \in {"deleteUser", "patchRole"} /\ last.isAdmin
      /\ last.req.op = "patchRole" => last.req.role = "user"
      /\ IsValid(last.req.id) /\ ObjectId(last.req.id) = CallerOid
      /\ last.pre # <<>> )
    => (last.status = 400 /\ Before \in users)

\* C11: at least one user document has role admin, whatever role updates
\* and user deletes were made and however their steps (the admin check, the
\* guard reads, the store write) interleaved.
C11_AdminRemains ==
    \E u \in users : u.role = "admin"

====
